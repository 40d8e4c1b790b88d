------------------------------ MODULE Gateway ------------------------------
(***************************************************************************)
(* A gateway and its sub-devices: the synchronous calls of the linkkit API *)
(* (impl_linkkit.c) that register, attach, log in, log out and detach a    *)
(* sub-device, and IOT_Linkkit_Close of the master.                        *)
(*                                                                         *)
(* A call holds the linkkit mutex, sends a request to the cloud, puts a    *)
(* node with a semaphore into upstream_sync_callback_list and waits.  The  *)
(* cm_yield thread (iotx_cm.c) handles the reply: it updates the device's  *)
(* status and queues an event.  The application's thread in                *)
(* IOT_Linkkit_Yield dispatches the event, which posts the semaphore.      *)
(* The device list is only locked against the callers, not against the     *)
(* cm_yield thread.                                                        *)
(*                                                                         *)
(* A sub-device is its product key and device name; devid is the number    *)
(* its node in the device list has at present.  The cloud and the network  *)
(* are external: messages keep their order, and some are lost.             *)
(***************************************************************************)
EXTENDS Integers, Sequences, FiniteSets

CONSTANTS Callers,    \* threads that call the API
          Uses,       \* Uses[c]: the calls thread c makes
          Devices,    \* sub-devices
          QueueMax,   \* CONFIG_DISPATCH_QUEUE_MAXLEN
          MaxCalls,   \* bound: API calls
          MaxPushes,  \* bound: messages of the cloud that answer no request
          MaxLosses,  \* bound: requests lost, or answers to them
          NoThread

(* The calls that wait for an answer of the cloud.                         *)
Kinds == {"connect", "login", "logout", "delete_topo"}

ASSUME GatewayAssumption ==
    /\ NoThread \notin Callers /\ IsFiniteSet(Devices)
    /\ Uses \in [Callers -> SUBSET (Kinds \cup {"slave_open", "slave_close", "close"})]
    /\ QueueMax \in Nat \ {0}
    /\ MaxCalls \in Nat /\ MaxPushes \in Nat /\ MaxLosses \in Nat

VARIABLES
    is_opened, yield_running, is_yield_running,
    mutex,        \* holder of the linkkit mutex, or NoThread
    app,          \* by caller: step, kind of call, device, request and its id, result
    sync,         \* upstream_sync_callback_list: nodes with id, code and posts
    dev,          \* by device: devid (0: no node), status and device_secret
    next_devid, next_id,
    cache,        \* dmc_list: nodes with id and devid
    down,         \* messages of the cloud that are on their way
    cm,           \* the cm_yield thread: its step and the message it handles
    ipc,          \* the queue of events for dispatch
    ypc, count,   \* IOT_Linkkit_Yield: its step and the count of iotx_dm_dispatch
    calls, pushes, losses,
    registered, attached,   \* the cloud: devices it knows, devices of this gateway
    accepted,     \* history: the id of the last request accepted for the device
    session,      \* history: devices logged in by the last such request about it
    lost          \* history: devices of which a message was lost, dropped or misdirected

linkkit == <<is_opened, yield_running, is_yield_running, mutex>>
caller  == <<app, next_id, calls>>
devices == <<dev, next_devid>>
cloud   == <<registered, attached, accepted, session>>
net     == <<down, losses, lost, pushes>>
yield   == <<ypc, count>>
vars    == <<linkkit, caller, sync, devices, cache, net, cm, ipc, yield, cloud>>

NoMessage == [id |-> 0, op |-> "none", dev |-> "none", ok |-> FALSE]
NoDevice == [devid |-> 0, status |-> "none", secret |-> FALSE]
Idle == [pc |-> "idle", kind |-> "none", dev |-> "none", op |-> "none", id |-> 0]

(* The master is opened and connected and the sub-devices are opened: new  *)
(* ones, which have to be registered, or ones the application knows the    *)
(* secret of, which are attached since an earlier run.                     *)
Init ==
    /\ registered \in {{}, Devices}
    /\ is_opened = TRUE /\ yield_running = TRUE /\ is_yield_running = FALSE
    /\ mutex = NoThread
    /\ app = [c \in Callers |-> Idle]
    /\ sync = {}
    /\ \E number \in [Devices -> 1 .. Cardinality(Devices)] :
          /\ \A d, e \in Devices : number[d] = number[e] => d = e
          /\ dev = [d \in Devices |->
                      [devid |-> number[d], status |-> "authorized", secret |-> d \in registered]]
    /\ next_devid = Cardinality(Devices) + 1 /\ next_id = 1
    /\ cache = {}
    /\ down = <<>>
    /\ cm = [pc |-> "idle", msg |-> NoMessage]
    /\ ipc = <<>>
    /\ ypc = "out" /\ count = 0
    /\ calls = 0 /\ pushes = 0 /\ losses = 0
    /\ attached = registered
    /\ accepted = [d \in Devices |-> 0] /\ session = {} /\ lost = {}

-----------------------------------------------------------------------------
(* The cloud and the network (external)                                    *)

(* The cloud never grants what the device is not entitled to; it may       *)
(* refuse what it could grant.                                             *)
Entitled(op, d) ==
    CASE op = "topo_add" -> dev[d].secret
      [] op = "login" -> dev[d].secret /\ d \in attached
      [] OTHER -> TRUE

Grant(op, d) ==
    /\ accepted' = [accepted EXCEPT ![d] = next_id]
    /\ registered' = IF op = "register" THEN registered \cup {d} ELSE registered
    /\ attached' = CASE op = "topo_add" -> attached \cup {d}
                     [] op = "topo_delete" -> attached \ {d}
                     [] OTHER -> attached
    /\ session' = CASE op = "login" -> session \cup {d}
                    [] op \in {"logout", "topo_delete"} -> session \ {d}
                    [] OTHER -> session

(* What becomes of a request that is sent.  As the cloud answers requests  *)
(* in their order, that it decides at once and the answer takes its time   *)
(* is no restriction.  The request or its answer may be lost.              *)
Cloud(op, d) ==
    \/ \E ok \in BOOLEAN :
          /\ IF ok THEN Entitled(op, d) /\ Grant(op, d) ELSE UNCHANGED cloud
          /\ down' = Append(down, [id |-> next_id, op |-> op, dev |-> d, ok |-> ok])
          /\ UNCHANGED <<losses, lost>>
    \/ /\ losses < MaxLosses /\ losses' = losses + 1
       /\ lost' = lost \cup {d}
       /\ UNCHANGED down
       /\ (Entitled(op, d) /\ Grant(op, d)) \/ UNCHANGED cloud

-----------------------------------------------------------------------------
(* The calls of the API                                                    *)

MayCall(c, k) == app[c].pc = "idle" /\ k \in Uses[c] /\ calls < MaxCalls

Step(c, pc) == app' = [app EXCEPT ![c].pc = pc]

(* The call fails and gives the mutex back.                                *)
Fail(c) == app' = [app EXCEPT ![c] = Idle] /\ mutex' = NoThread

(* IOT_Linkkit_Open of a sub-device, which needs no linkkit mutex; the     *)
(* application knows the device's secret or has it registered later.       *)
SlaveOpen(c, d, secret) ==
    /\ MayCall(c, "slave_open") /\ calls' = calls + 1
    /\ is_opened /\ dev[d].devid = 0
    /\ secret => d \in registered
    /\ dev' = [dev EXCEPT ![d] = [devid |-> next_devid, status |-> "authorized", secret |-> secret]]
    /\ next_devid' = next_devid + 1
    /\ UNCHANGED <<linkkit, app, next_id, sync, cache, net, cm, ipc, yield, cloud>>

(* IOT_Linkkit_Close of a sub-device.                                      *)
SlaveClose(c, d) ==
    /\ MayCall(c, "slave_close") /\ calls' = calls + 1
    /\ mutex = NoThread /\ is_opened /\ dev[d].devid # 0
    /\ dev' = [dev EXCEPT ![d] = NoDevice]
    /\ UNCHANGED <<linkkit, app, next_id, next_devid, sync, cache, net, cm, ipc, yield, cloud>>

(* IOT_Linkkit_Connect of a sub-device and IOT_Linkkit_Report look at      *)
(* is_opened before they take the mutex.                                   *)
BeginCall(c, k, d) ==
    /\ MayCall(c, k) /\ calls' = calls + 1
    /\ is_opened
    /\ app' = [app EXCEPT ![c] = [Idle EXCEPT !.pc = "lock", !.kind = k, !.dev = d]]
    /\ UNCHANGED <<linkkit, next_id, sync, devices, cache, net, cm, ipc, yield, cloud>>

(* The request a call begins with: a device whose secret is known needs no *)
(* registration.                                                           *)
FirstOp(k, d) ==
    CASE k = "connect" -> IF dev[d].secret THEN "topo_add" ELSE "register"
      [] k = "delete_topo" -> "topo_delete"
      [] OTHER -> k

(* A call for a device without a node, or a logout of one that is not      *)
(* logged in, fails.                                                       *)
Allowed(k, d) ==
    /\ dev[d].devid # 0
    /\ k = "logout" => dev[d].status = "logined"

Enter(c) ==
    /\ app[c].pc = "lock" /\ mutex = NoThread
    /\ IF Allowed(app[c].kind, app[c].dev)
       THEN /\ app' = [app EXCEPT ![c].pc = "request", ![c].op = FirstOp(app[c].kind, app[c].dev)]
            /\ mutex' = c
       ELSE Fail(c)
    /\ UNCHANGED <<is_opened, yield_running, is_yield_running, next_id, calls, sync, devices,
                   cache, net, cm, ipc, yield, cloud>>

(* dm_mgr_upstream_*: the request is put into the message cache, which has *)
(* room for it (DmRequest models a full one), and published.               *)
SendRequest(c) ==
    LET d == app[c].dev
    IN  /\ app[c].pc = "request"
        /\ dev[d].devid # 0
        /\ Cloud(app[c].op, d)
        /\ cache' = cache \cup {[id |-> next_id, devid |-> dev[d].devid]}
        /\ app' = [app EXCEPT ![c].pc = "insert", ![c].id = next_id]
        /\ next_id' = next_id + 1
        /\ UNCHANGED <<linkkit, calls, sync, devices, pushes, cm, ipc, yield>>

(* It cannot be published and is taken out of the cache again.  Ids are    *)
(* only counted for requests that were sent.                               *)
SendFails(c) ==
    /\ app[c].pc = "request"
    /\ Fail(c)
    /\ UNCHANGED <<is_opened, yield_running, is_yield_running, next_id, calls, sync, devices, cache, net,
                   cm, ipc, yield, cloud>>

(* The node that waits for the reply is added after the request was sent.  *)
InsertNode(c) ==
    /\ app[c].pc = "insert" /\ Step(c, "wait")
    /\ sync' = sync \cup {[id |-> app[c].id, ok |-> FALSE, posted |-> FALSE]}
    /\ UNCHANGED <<linkkit, next_id, calls, devices, cache, net, cm, ipc, yield, cloud>>

NodesOf(id) == {n \in sync : n.id = id}

(* HAL_SemaphoreWait returns because the semaphore was posted ...          *)
Woken(c) ==
    /\ app[c].pc = "wait" /\ \E n \in NodesOf(app[c].id) : n.posted
    /\ Step(c, "read")
    /\ UNCHANGED <<linkkit, next_id, calls, sync, devices, cache, net, cm, ipc, yield, cloud>>

(* Mutant of Expires: the semaphore is waited for without a limit.          *)
WaitsForever(c) == FALSE

(* ... or because IOTX_LINKKIT_SYNC_DEFAULT_TIMEOUT_MS have passed.        *)
Expires(c) == \A n \in NodesOf(app[c].id) : ~n.posted

(* The node is removed and the call fails.                                 *)
TimedOut(c) ==
    /\ app[c].pc = "wait" /\ Expires(c)
    /\ sync' = sync \ NodesOf(app[c].id)
    /\ Fail(c)
    /\ UNCHANGED <<is_opened, yield_running, is_yield_running, next_id, calls, devices, cache,
                   net, cm, ipc, yield, cloud>>

(* The code is read from the node.  A registered device is attached next,  *)
(* one that is logged in subscribes to its topics.                         *)
ReadCode(c) ==
    /\ app[c].pc = "read"
    /\ sync' = sync \ NodesOf(app[c].id)
    /\ \E n \in NodesOf(app[c].id) :
          \/ ~n.ok /\ Fail(c)
          \/ /\ n.ok /\ app[c].op = "register"
             /\ app' = [app EXCEPT ![c].pc = "request", ![c].op = "topo_add"]
             /\ UNCHANGED mutex
          \/ n.ok /\ app[c].op = "login" /\ Step(c, "subscribe") /\ UNCHANGED mutex
          \/ n.ok /\ app[c].op \notin {"register", "login"} /\ Step(c, "success") /\ UNCHANGED mutex
    /\ UNCHANGED <<is_opened, yield_running, is_yield_running, next_id, calls, devices, cache,
                   net, cm, ipc, yield, cloud>>

(* iotx_dm_subscribe, which may fail.                                      *)
Subscribe(c) ==
    /\ app[c].pc = "subscribe"
    /\ Fail(c) \/ (Step(c, "success") /\ UNCHANGED mutex)
    /\ UNCHANGED <<is_opened, yield_running, is_yield_running, next_id, calls, sync, devices,
                   cache, net, cm, ipc, yield, cloud>>

(* The mutex is given back and SUCCESS_RETURN returned.                    *)
Succeed(c) ==
    /\ app[c].pc = "success"
    /\ app' = [app EXCEPT ![c] = Idle] /\ mutex' = NoThread
    /\ UNCHANGED <<is_opened, yield_running, is_yield_running, next_id, calls, sync, devices,
                   cache, net, cm, ipc, yield, cloud>>

-----------------------------------------------------------------------------
(* IOT_Linkkit_Close of the master                                         *)

(* Yields are told to stop.  While one is running the call is refused.     *)
CloseBegin(c) ==
    /\ MayCall(c, "close") /\ calls' = calls + 1
    /\ yield_running' = FALSE
    /\ app' = [app EXCEPT ![c] = IF is_yield_running THEN Idle
                                 ELSE [Idle EXCEPT !.pc = "close_lock"]]
    /\ UNCHANGED <<is_opened, is_yield_running, mutex, next_id, sync, devices, cache, net, cm, ipc,
                   yield, cloud>>

(* Mutant of CloseMayEnter: the mutex is not taken.                         *)
CloseDoesNotWait(c) == TRUE

(* Close waits for a call in progress.                                     *)
CloseMayEnter(c) == mutex = NoThread

CloseEnter(c) ==
    /\ app[c].pc = "close_lock" /\ CloseMayEnter(c)
    /\ IF is_opened THEN Step(c, "close") /\ mutex' = c
       ELSE Fail(c)
    /\ is_opened' = FALSE
    /\ UNCHANGED <<yield_running, is_yield_running, next_id, calls, sync, devices, cache, net, cm,
                   ipc, yield, cloud>>

(* The connection is closed once the cm_yield thread has left; then the    *)
(* lists and the mutexes are destroyed and the context is zeroed.  What    *)
(* another caller blocked on the mutex, or a yield that passed its checks  *)
(* before, does from here on is undefined.                                 *)
CloseDone(c) ==
    /\ app[c].pc = "close" /\ cm.pc = "idle"
    /\ app' = [x \in Callers |->
                 CASE x = c -> Idle
                   [] app[x].pc \in {"lock", "close_lock"} -> [app[x] EXCEPT !.pc = "undefined"]
                   [] OTHER -> app[x]]
    /\ ypc' = IF ypc \in {"out", "entered"} THEN ypc ELSE "undefined"
    /\ is_yield_running' = FALSE /\ yield_running' = FALSE
    /\ mutex' = NoThread
    /\ sync' = {} /\ cache' = {} /\ ipc' = <<>>
    /\ dev' = [d \in Devices |-> NoDevice]
    /\ down' = <<>>
    /\ UNCHANGED <<is_opened, next_id, calls, next_devid, losses, lost, pushes, cm, count, cloud>>

-----------------------------------------------------------------------------
(* The cm_yield thread                                                     *)

CmStep(pc) == cm' = [cm EXCEPT !.pc = pc]

CachedId(id) == \E n \in cache : n.id = id

(* dm_ipc_msg_insert: a full queue refuses the event.                      *)
QueueInsert(e) == IF Len(ipc) >= QueueMax THEN ipc ELSE Append(ipc, e)

(* A message that answers no request: a property set, a service call.      *)
CmPush ==
    /\ cm.pc = "idle" /\ is_opened /\ pushes < MaxPushes /\ pushes' = pushes + 1
    /\ ipc' = QueueInsert([id |-> 0, ok |-> TRUE])
    /\ UNCHANGED <<linkkit, caller, sync, devices, cache, down, losses, lost, cm, yield, cloud>>

(* The next reply.  One to a topology request is dropped if the request is *)
(* not in the cache.                                                       *)
CmTake ==
    LET m == Head(down)
    IN  /\ cm.pc = "idle" /\ down # <<>> /\ down' = Tail(down)
        /\ cm' = [msg |-> m,
                  pc |-> IF m.op \in {"register", "login", "logout"} THEN "session"
                         ELSE IF CachedId(m.id) THEN "topo" ELSE "forget"]
        /\ lost' = IF cm'.pc = "forget" THEN lost \cup {m.dev} ELSE lost
        /\ UNCHANGED <<linkkit, caller, sync, devices, cache, losses, pushes, ipc, yield, cloud>>

(* Mutant of SetStatus: the code of the reply is not looked at.             *)
SetStatusAlways(d, status, ok) == [dev EXCEPT ![d].status = status]

(* dm_mgr_set_dev_status, if the code of the reply is success.             *)
SetStatus(d, status, ok) == IF ok THEN [dev EXCEPT ![d].status = status] ELSE dev

(* The reply to a registration brings the device's secret.                 *)
Registered(d, ok) == IF ok THEN [dev EXCEPT ![d].status = "registered", ![d].secret = TRUE] ELSE dev

(* A reply to login, logout or registration names the device; it is        *)
(* dropped if the device has no node, except that a refused registration   *)
(* is always reported.                                                     *)
CmSessionReply ==
    LET m == cm.msg
    IN  /\ cm.pc = "session"
        /\ dev' = IF dev[m.dev].devid = 0 THEN dev
                  ELSE CASE m.op = "register" -> Registered(m.dev, m.ok)
                       [] m.op = "login" -> SetStatus(m.dev, "logined", m.ok)
                       [] m.op = "logout" -> SetStatus(m.dev, "attached", m.ok)
        /\ ipc' = IF dev[m.dev].devid # 0 \/ (m.op = "register" /\ ~m.ok)
                  THEN QueueInsert([id |-> m.id, ok |-> m.ok]) ELSE ipc
        /\ CmStep("forget")
        /\ UNCHANGED <<linkkit, caller, sync, next_devid, cache, net, yield, cloud>>

(* A reply to a topology request takes the devid from the node in the      *)
(* cache, which dm_msg_cache_tick may have freed since it was looked up;   *)
(* a device that was closed and opened again since has another one, and    *)
(* the reply is lost on it.  Attached is the status after a detachment too. *)
CmTopoReply ==
    LET m == cm.msg
        devids == IF CachedId(m.id) THEN {n.devid : n \in {x \in cache : x.id = m.id}}
                  ELSE {dev[d].devid : d \in Devices} \cup {0}
    IN  /\ cm.pc = "topo"
        /\ \E devid \in devids :
              LET found == {d \in Devices : dev[d].devid = devid /\ devid # 0}
              IN  /\ dev' = [d \in Devices |-> IF m.ok /\ d \in found
                                               THEN [dev[d] EXCEPT !.status = "attached"]
                                               ELSE dev[d]]
                  /\ lost' = IF devid = dev[m.dev].devid THEN lost ELSE lost \cup {m.dev}
        /\ ipc' = QueueInsert([id |-> m.id, ok |-> m.ok])
        /\ CmStep("forget")
        /\ UNCHANGED <<linkkit, caller, sync, next_devid, cache, down, losses, pushes, yield, cloud>>

(* The handler ends by removing the request from the cache.                *)
CmForget ==
    /\ cm.pc = "forget"
    /\ cache' = {n \in cache : n.id # cm.msg.id}
    /\ cm' = [pc |-> "idle", msg |-> NoMessage]
    /\ UNCHANGED <<linkkit, caller, sync, devices, net, ipc, yield, cloud>>

-----------------------------------------------------------------------------
(* IOT_Linkkit_Yield                                                       *)

(* Mutant of YieldAllowed: the flag is not tested.                          *)
YieldAlways == TRUE
YieldAllowed == yield_running

(* The flag is tested first and the yield marked as running after that.    *)
YieldTest ==
    /\ ypc = "out" /\ YieldAllowed /\ ypc' = "entered"
    /\ UNCHANGED <<linkkit, caller, sync, devices, cache, net, cm, ipc, count, cloud>>

YieldEnter ==
    /\ ypc = "entered"
    /\ IF is_opened THEN ypc' = "tick" /\ is_yield_running' = TRUE
       ELSE ypc' = "out" /\ is_yield_running' = FALSE
    /\ UNCHANGED <<is_opened, yield_running, mutex, caller, sync, devices, cache, net, cm, ipc, count, cloud>>

(* dm_msg_cache_tick: the oldest request fades out and its time-out is     *)
(* queued with the type of its reply.                                      *)
TickNode ==
    /\ ypc = "tick"
    /\ \E n \in cache :
          /\ \A m \in cache : n.id <= m.id
          /\ cache' = cache \ {n}
          /\ ipc' = QueueInsert([id |-> n.id, ok |-> FALSE])
    /\ UNCHANGED <<linkkit, caller, sync, devices, net, cm, yield, cloud>>

TickEnd ==
    /\ ypc = "tick" /\ ypc' = "drain" /\ count' = 0
    /\ UNCHANGED <<linkkit, caller, sync, devices, cache, net, cm, ipc, cloud>>

(* Mutant of Wakes: the ids are not compared.                               *)
WakesAnyone(n, id) == TRUE

(* _iotx_linkkit_upstream_sync_callback_list_search                        *)
Wakes(n, id) == n.id = id

(* The next event: the code of a reply is written to the node that waits   *)
(* for it and the semaphore is posted; anything else goes to a callback of *)
(* the application.                                                        *)
DispatchEvent ==
    LET e == Head(ipc)
    IN  /\ ypc = "drain" /\ count < QueueMax /\ ipc # <<>>
        /\ ipc' = Tail(ipc) /\ count' = count + 1
        /\ IF e.id = 0
           THEN ypc' = "callback" /\ UNCHANGED sync
           ELSE /\ sync' = {IF Wakes(n, e.id) THEN [n EXCEPT !.ok = e.ok, !.posted = TRUE] ELSE n : n \in sync}
                /\ UNCHANGED ypc
        /\ UNCHANGED <<linkkit, caller, devices, cache, net, cm, cloud>>

(* The callback answers with IOT_Linkkit_Report, which takes the mutex.    *)
CallbackReports ==
    /\ ypc = "callback" /\ mutex = NoThread /\ ypc' = "drain"
    /\ UNCHANGED <<linkkit, caller, sync, devices, cache, net, cm, ipc, count, cloud>>

YieldEnd ==
    /\ ypc = "drain" /\ (ipc = <<>> \/ count = QueueMax)
    /\ ypc' = "out" /\ is_yield_running' = FALSE /\ count' = 0
    /\ UNCHANGED <<is_opened, yield_running, mutex, caller, sync, devices, cache, net, cm, ipc, cloud>>

-----------------------------------------------------------------------------
CallStep(c) ==
    \/ Enter(c) \/ SendRequest(c) \/ SendFails(c) \/ InsertNode(c)
    \/ Woken(c) \/ TimedOut(c) \/ ReadCode(c) \/ Subscribe(c) \/ Succeed(c)
    \/ CloseEnter(c) \/ CloseDone(c)

CmThread == CmTake \/ CmSessionReply \/ CmTopoReply \/ CmForget

YieldThread ==
    \/ YieldTest \/ YieldEnter \/ TickNode \/ TickEnd
    \/ DispatchEvent \/ CallbackReports \/ YieldEnd

Next ==
    \/ \E c \in Callers : CallStep(c) \/ CloseBegin(c)
    \/ \E c \in Callers, d \in Devices :
          \/ \E secret \in BOOLEAN : SlaveOpen(c, d, secret)
          \/ SlaveClose(c, d)
          \/ \E k \in Kinds : BeginCall(c, k, d)
    \/ CmPush
    \/ CmThread
    \/ YieldThread

Spec == Init /\ [][Next]_vars

(* Every thread of the device keeps running; the cloud and the network owe *)
(* nothing.                                                                *)
FairSpec ==
    /\ Spec
    /\ \A c \in Callers : WF_vars(CallStep(c))
    /\ WF_vars(CmThread)
    /\ WF_vars(YieldThread)

-----------------------------------------------------------------------------
(* Properties                                                              *)

(* Every variable has values of its type, and the queue of events stays    *)
(* within CONFIG_DISPATCH_QUEUE_MAXLEN.                                    *)
TypeOK ==
    /\ is_opened \in BOOLEAN /\ yield_running \in BOOLEAN /\ is_yield_running \in BOOLEAN
    /\ mutex \in Callers \cup {NoThread}
    /\ \A c \in Callers :
          /\ app[c].pc \in {"idle", "lock", "request", "insert", "wait", "read", "success",
                            "subscribe", "close_lock", "close", "undefined"}
          /\ app[c].id < next_id
    /\ \A n \in sync : n.id < next_id
    /\ \A d \in Devices :
          /\ dev[d].devid < next_devid
          /\ dev[d].status \in {"none", "authorized", "registered", "attached", "logined"}
    /\ \A n \in cache : n.id < next_id /\ n.devid < next_devid
    /\ Len(ipc) <= QueueMax /\ count \in 0 .. QueueMax
    /\ cm.pc \in {"idle", "session", "topo", "forget"}
    /\ ypc \in {"out", "entered", "tick", "drain", "callback", "undefined"}

StatusAfter(op) == IF op = "login" THEN "logined" ELSE "attached"

(* A call on a sub-device returns success only if the cloud accepted the   *)
(* very request the call made, and nothing about that device after it:     *)
(* an event for an earlier call that had timed out never wakes the wrong   *)
(* caller (upstream_sync_callback_list, msgid).  After a login or a logout *)
(* the status in the device list is the one the call stands for.           *)
SuccessIsGranted ==
    \A c \in Callers : app[c].pc = "success" =>
        /\ accepted[app[c].dev] = app[c].id
        /\ app[c].op \in {"login", "logout"} => dev[app[c].dev].status = StatusAfter(app[c].op)

(* A caller that waits for its semaphore, or has been woken, finds its     *)
(* node in the list: IOT_Linkkit_Close, which frees the list and destroys  *)
(* the semaphores, cannot run while a call is waiting.                     *)
NodeOutlivesWait ==
    \A c \in Callers :
        app[c].pc \in {"wait", "read"} => Cardinality(NodesOf(app[c].id)) = 1

(* The lists are sound: the queue is bounded and no caller waits on a node *)
(* that is gone.                                                           *)
GatewayInv == TypeOK /\ NodeOutlivesWait

(* A device is not taken for logged in when it is not: once every message  *)
(* about it has been handled, none lost, dropped or applied to another     *)
(* node, a status of LOGINED means that the last session request the cloud *)
(* granted was a login.                                                    *)
LoginStatusTrue ==
    \A d \in Devices :
        /\ dev[d].status = "logined"
        /\ d \notin {down[i].dev : i \in DOMAIN down} \cup {cm.msg.dev} \cup lost
        => d \in session

(* Every call returns, though the reply, or the event that reports it, may *)
(* be lost and the yielding thread may be blocked behind the mutex the     *)
(* call holds.  A call caught by the destruction of the mutex is excepted. *)
CallsReturn ==
    \A c \in Callers : app[c].pc # "idle" ~> app[c].pc \in {"idle", "undefined"}

(* After IOT_Linkkit_Close of the master was called, successful or not,    *)
(* the yield in progress ends and none begins again.                       *)
YieldsEnd == ~yield_running ~> [](ypc \in {"out", "undefined"})
=============================================================================
