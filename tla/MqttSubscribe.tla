---------------------------- MODULE MqttSubscribe ----------------------------
(***************************************************************************)
(* Subscriptions of the MQTT client: list_sub_handle, the handlers by      *)
(* which incoming messages are delivered, list_sub_sync_ack, the SUBACKs   *)
(* that IOT_MQTT_Subscribe_Sync waits for, and the global _in_yield_cb.    *)
(*                                                                         *)
(* A thread is in an API call (pc), in wrapper_mqtt_yield (ypc), or in     *)
(* both: a yield that belongs to a synchronous subscription, or a call     *)
(* that a callback makes (the callbacks of a synchronous subscription's    *)
(* own yield make none).  Sections under lock_generic are single steps;    *)
(* lock_write_buf and lock_yield are held over several.  lock_read_buf is  *)
(* only taken inside lock_yield; both are recursive.                       *)
(*                                                                         *)
(* Most callbacks run inside _handle_event, which sets _in_yield_cb.  The  *)
(* callbacks of DISCONNECT, RECONNECT and of the identity response run     *)
(* inside a yield too, without the flag: a synchronous subscription made   *)
(* there yields again, under the lock its thread already has.              *)
(*                                                                         *)
(* A handler stands for a filter, a function and a context: two nodes with *)
(* the same handler are identical to iotx_mc_check_handle_is_identical.    *)
(* Messages have QoS 0.  The broker keeps the session (clean_session 0).   *)
(***************************************************************************)
EXTENDS Integers, Sequences, FiniteSets, SequencesExt, Lists

CONSTANTS Threads,    \* threads of the application
          Yielders,   \* those that yield or subscribe synchronously
          Handlers, Filters,
          FilterOf,   \* the topic filter of each handler
          Matches,    \* topic -> filters whose handlers get its messages
          Removes,    \* filter -> filters whose handlers MQTTUnsubscribe takes for it
          Apis,       \* the calls the application makes: pairs of a kind and a handler
          MaxIds,     \* bound: packet ids taken
          MaxEvents,  \* bound: messages the broker publishes and failures of the network
          NoThread, NoPkt, NoHandler

(* IOT_MQTT_Subscribe, IOT_MQTT_Subscribe_Sync, a subscription with        *)
(* IOTX_MQTT_QOS3_SUB_LOCAL, and IOT_MQTT_Unsubscribe.                     *)
Kinds == {"sub", "sync", "local", "unsub"}

ASSUME SubscribeAssumption ==
    /\ Yielders \subseteq Threads /\ NoThread \notin Threads /\ IsFiniteSet(Threads)
    /\ FilterOf \in [Handlers -> Filters] /\ NoHandler \notin Handlers
    /\ Matches \in [Filters -> SUBSET Filters] /\ Removes \in [Filters -> SUBSET Filters]
    /\ Apis \subseteq Kinds \X Handlers /\ MaxIds \in Nat /\ MaxEvents \in Nat

VARIABLES
    online,              \* client_state is CONNECTED
    packet_id,
    list_sub_handle,     \* sequence of handlers
    stripped,            \* history: filters whose handlers went last with another filter's
    list_sub_sync_ack,   \* sequence of [id, ack]
    lock_write_buf, lock_yield,
    in_yield_cb,         \* _in_yield_cb
    buf_read,            \* the packet being handled, NoPkt when the buffer is freed
    pc, call,            \* per thread: step in an API call, and its locals
    ypc, walk,           \* per thread: step in a yield, and its locals
    within,              \* per thread: the callback outside _handle_event it is in
    toBroker, toClient,  \* the connection, in order
    broker,              \* filters the broker has a subscription for
    budget,              \* messages and failures left
    granted,             \* history: ids whose positive SUBACK was handled
    unsubLost,           \* history: filters whose UNSUBSCRIBE was lost
    result               \* history: what a thread's last synchronous call returned

api    == <<pc, call, result>>
yield  == <<ypc, walk, within, buf_read, lock_yield>>
net    == <<toBroker, toClient, broker, budget, unsubLost>>
client == <<online, packet_id, list_sub_handle, stripped, list_sub_sync_ack,
            lock_write_buf, in_yield_cb>>
vars   == <<api, yield, net, client, granted>>

Packets == [type : {"SUBACK"}, id : 1 .. MaxIds, ok : BOOLEAN]
      \cup [type : {"UNSUBACK"}, id : 1 .. MaxIds]
      \cup [type : {"PUBLISH"}, f : Filters]
Requests == [type : {"SUBSCRIBE", "UNSUBSCRIBE"}, id : 1 .. MaxIds, f : Filters]

NoCall == [kind |-> "none", h |-> NoHandler, id |-> 0, ret |-> 0, subed |-> FALSE]
NoResult == [kind |-> "none", ret |-> 0, early |-> FALSE]
NoWalk == [type |-> "none", f |-> "none", at |-> NoHandler, freed |-> FALSE,
           due |-> {}, called |-> {}]

(* Every variable has values of its type, and there are no more nodes for  *)
(* SUBACKs than threads that can wait for one.                             *)
TypeOK ==
    /\ online \in BOOLEAN /\ packet_id \in 0 .. MaxIds
    /\ list_sub_handle \in Seq(Handlers)
    /\ Len(list_sub_sync_ack) <= Cardinality(Yielders)
    /\ \A i \in DOMAIN list_sub_sync_ack :
          list_sub_sync_ack[i] \in [id : 1 .. MaxIds, ack : {"UNDEF", "SUCCESS", "NACK"}]
    /\ lock_write_buf \in Threads \cup {NoThread}
    /\ lock_yield \in Yielders \cup {NoThread}
    /\ in_yield_cb \in BOOLEAN
    /\ buf_read \in Packets \cup {NoPkt}
    /\ \A t \in Threads :
          /\ pc[t] \in {"idle", "id", "send", "failed", "add", "remove", "return", "wait", "yield", "decide"}
          /\ call[t] \in [kind : Kinds \cup {"none"}, h : Handlers \cup {NoHandler},
                          id : 0 .. MaxIds, ret : -1 .. MaxIds, subed : BOOLEAN]
          /\ ypc[t] \in {"none", "cycle", "handle", "walk", "cb"}
          /\ within[t] \in {"none", "disconnect", "reconnect", "identity"}
    /\ toBroker \in Seq(Requests) /\ toClient \in Seq(Packets)
    /\ broker \subseteq Filters /\ stripped \subseteq Filters /\ granted \subseteq 1 .. MaxIds

Init ==
    /\ online = TRUE /\ packet_id = 0
    /\ list_sub_handle = <<>> /\ list_sub_sync_ack = <<>> /\ stripped = {}
    /\ lock_write_buf = NoThread /\ lock_yield = NoThread
    /\ in_yield_cb = FALSE /\ buf_read = NoPkt
    /\ pc = [t \in Threads |-> "idle"] /\ call = [t \in Threads |-> NoCall]
    /\ ypc = [t \in Threads |-> "none"] /\ walk = [t \in Threads |-> NoWalk]
    /\ within = [t \in Threads |-> "none"]
    /\ toBroker = <<>> /\ toClient = <<>> /\ broker = {}
    /\ budget = MaxEvents
    /\ granted = {} /\ unsubLost = {}
    /\ result = [t \in Threads |-> NoResult]

Goto(t, step)    == pc' = [pc EXCEPT ![t] = step]
GotoY(t, step)   == ypc' = [ypc EXCEPT ![t] = step]
InCallback(t)    == ypc[t] = "cb"

(* The bound on ids leaves one for another call.                           *)
IdLeft == packet_id + Cardinality({t \in Threads : pc[t] = "id"}) < MaxIds

(* The thread may begin a call: it is in none, and not inside a step of a  *)
(* yield other than a callback.                                            *)
MayCall(t) == pc[t] = "idle" /\ ypc[t] \in {"none", "cb"}

-----------------------------------------------------------------------------
(* Subscribing                                                             *)

(* A call with valid arguments.                                            *)
BeginCall(t, kind, h) ==
    /\ MayCall(t)
    /\ kind = "sync" => t \in Yielders
    /\ IdLeft
    /\ call' = [call EXCEPT ![t] = [NoCall EXCEPT !.kind = kind, !.h = h, !.ret = -1]]
    /\ result' = [result EXCEPT ![t] = NoResult]
    /\ Goto(t, "id")
    /\ UNCHANGED <<yield, net, client, granted>>

(* wrapper_mqtt_subscribe and wrapper_mqtt_unsubscribe take an id and then *)
(* look at the client's state.                                             *)
TakeId(t) ==
    /\ pc[t] = "id"
    /\ packet_id' = packet_id + 1
    /\ call' = [call EXCEPT ![t].id = packet_id + 1]
    /\ Goto(t, IF ~online THEN "return"
               ELSE IF call[t].kind = "local" THEN "add" ELSE "send")
    /\ UNCHANGED <<result, yield, net, granted, online, list_sub_handle, stripped, list_sub_sync_ack,
                   lock_write_buf, in_yield_cb>>

RequestOf(t) ==
    [type |-> IF call[t].kind = "unsub" THEN "UNSUBSCRIBE" ELSE "SUBSCRIBE",
     id |-> call[t].id, f |-> FilterOf[call[t].h]]

(* Mutant of KeepsLock: MQTTUnsubscribe unlocks before it searches.        *)
KeepsNoLock(t) == FALSE

(* MQTTUnsubscribe keeps lock_write_buf until the handlers are removed.    *)
KeepsLock(t) == call[t].kind = "unsub"

(* The packet is written under lock_write_buf.  On a connection that is    *)
(* already broken the bytes go nowhere.                                    *)
SendRequest(t) ==
    /\ pc[t] = "send" /\ lock_write_buf = NoThread
    /\ toBroker' = IF online THEN Append(toBroker, RequestOf(t)) ELSE toBroker
    /\ lock_write_buf' = IF KeepsLock(t) THEN t ELSE NoThread
    /\ Goto(t, IF call[t].kind = "unsub" THEN "remove" ELSE "add")
    /\ unsubLost' = IF online \/ call[t].kind # "unsub" THEN unsubLost
                    ELSE unsubLost \cup {FilterOf[call[t].h]}
    /\ UNCHANGED <<call, result, yield, toClient, broker, budget, granted, online, packet_id,
                   list_sub_handle, stripped, list_sub_sync_ack, in_yield_cb>>

(* The write fails: the node is freed and the caller stores DISCONNECTED.  *)
SendFails(t) ==
    /\ pc[t] = "send" /\ lock_write_buf = NoThread
    /\ budget > 0
    /\ budget' = budget - 1
    /\ Goto(t, "failed")
    /\ UNCHANGED <<call, result, yield, toBroker, toClient, broker, unsubLost, client, granted>>

StoreDisconnected(t) ==
    /\ pc[t] = "failed"
    /\ online' = FALSE
    /\ Goto(t, "return")
    /\ UNCHANGED <<call, result, yield, net, granted, packet_id, list_sub_handle, stripped,
                   list_sub_sync_ack, lock_write_buf, in_yield_cb>>

(* iotx_mc_check_handle_is_identical decides whether the node is new.      *)
AddedTo(list, h) == IF Contains(list, h) THEN list ELSE Append(list, h)

(* The end of MQTTSubscribe: the handler enters the list.                  *)
AddHandler(t) ==
    /\ pc[t] = "add"
    /\ list_sub_handle' = AddedTo(list_sub_handle, call[t].h)
    /\ stripped' = stripped \ {FilterOf[call[t].h]}
    /\ call' = [call EXCEPT ![t].ret = call[t].id]
    /\ Goto(t, "return")
    /\ UNCHANGED <<result, yield, net, granted, online, packet_id, list_sub_sync_ack,
                   lock_write_buf, in_yield_cb>>

Found(t) == {h \in Handlers : FilterOf[h] \in Removes[FilterOf[call[t].h]]}

(* Other filters whose handlers go with them.                              *)
AlsoTaken(t) == {FilterOf[h] : h \in Found(t) \cap ToSet(list_sub_handle)} \ {FilterOf[call[t].h]}

(* A delivery may stand on a freed node while its callback runs.           *)
Freed(w, gone) == [w EXCEPT !.freed = @ \/ w.at \in gone, !.due = @ \ gone]

(* The end of MQTTUnsubscribe: nodes are freed.                            *)
RemoveHandlers(t) ==
    /\ pc[t] = "remove"
    /\ list_sub_handle' = Without(list_sub_handle, Found(t))
    /\ stripped' = stripped \cup AlsoTaken(t)
    /\ walk' = [u \in Threads |-> Freed(walk[u], Found(t))]
    /\ lock_write_buf' = IF lock_write_buf = t THEN NoThread ELSE lock_write_buf
    /\ call' = [call EXCEPT ![t].ret = call[t].id]
    /\ Goto(t, "return")
    /\ UNCHANGED <<result, ypc, within, buf_read, lock_yield, net, granted, online, packet_id,
                   list_sub_sync_ack, in_yield_cb>>

(* The call leaves with ret; a failed one with -1.  early: before it       *)
(* looked for its SUBACK.                                                  *)
Leave(t, ret, early) ==
    /\ result' = [result EXCEPT ![t] = IF call[t].kind # "sync" THEN NoResult
                                       ELSE [kind |-> "sync", ret |-> ret, early |-> early]]
    /\ call' = [call EXCEPT ![t] = NoCall]
    /\ Goto(t, "idle")

(* Return from wrapper_mqtt_subscribe or wrapper_mqtt_unsubscribe; in      *)
(* wrapper_mqtt_subscribe_sync that is also the end when any callback is   *)
(* running.                                                                *)
ReturnToCaller(t) ==
    /\ pc[t] = "return"
    /\ call[t].kind # "sync" \/ in_yield_cb
    /\ Leave(t, call[t].ret, TRUE)
    /\ UNCHANGED <<yield, net, client, granted>>

-----------------------------------------------------------------------------
(* wrapper_mqtt_subscribe_sync                                             *)

(* The node for the SUBACK is added after SUBSCRIBE was written.           *)
AddSyncNode(t) ==
    /\ pc[t] = "return" /\ call[t].kind = "sync" /\ ~in_yield_cb
    /\ IF call[t].ret > 0
       THEN /\ list_sub_sync_ack' = Append(list_sub_sync_ack, [id |-> call[t].ret, ack |-> "UNDEF"])
            /\ call' = [call EXCEPT ![t].subed = TRUE]
       ELSE UNCHANGED <<list_sub_sync_ack, call>>
    /\ Goto(t, "yield")
    /\ UNCHANGED <<result, yield, net, granted, online, packet_id, list_sub_handle, stripped,
                   lock_write_buf, in_yield_cb>>

(* Mutant of Unlinked: the node of a refused subscription stays.           *)
UnlinkedIfGranted(t) ==
    IF list_sub_sync_ack[1].ack = "SUCCESS" THEN Tail(list_sub_sync_ack) ELSE list_sub_sync_ack

Unlinked(t) == Tail(list_sub_sync_ack)

(* Mutant of Confirms: any SUBACK ends the wait.                           *)
ConfirmsAny(node) == node.ack \in {"SUCCESS", "NACK"}

Confirms(node) == node.ack = "SUCCESS"

(* After its yield of 100 ms the call looks at the first node of the list  *)
(* only, because its loop ends with break.                                 *)
LookForAck(t) ==
    /\ pc[t] = "wait" /\ ypc[t] = "none"
    /\ IF list_sub_sync_ack = <<>> \/ list_sub_sync_ack[1].id # call[t].ret
          \/ list_sub_sync_ack[1].ack = "UNDEF"
       THEN Goto(t, "decide") /\ UNCHANGED <<call, result, list_sub_sync_ack>>
       ELSE /\ list_sub_sync_ack' = Unlinked(t)
            /\ IF Confirms(list_sub_sync_ack[1])
               THEN Leave(t, call[t].ret, FALSE)
               ELSE /\ call' = [call EXCEPT ![t].ret = -1, ![t].subed = FALSE]
                    /\ Goto(t, "decide") /\ UNCHANGED result
    /\ UNCHANGED <<yield, net, granted, online, packet_id, list_sub_handle, stripped, lock_write_buf, in_yield_cb>>

(* Time is left: subscribe again after a refusal or failure, or wait on.   *)
NextRound(t) ==
    /\ pc[t] = "decide"
    /\ IF call[t].ret < 0 THEN IdLeft /\ Goto(t, "id") ELSE Goto(t, "yield")
    /\ UNCHANGED <<call, result, yield, net, client, granted>>

(* The timer has expired: the node is removed, the handler stays.          *)
SyncTimeout(t) ==
    /\ pc[t] = "decide"
    /\ list_sub_sync_ack' = Without(list_sub_sync_ack, {n \in ToSet(list_sub_sync_ack) : n.id = call[t].ret})
    /\ Leave(t, -1, FALSE)
    /\ UNCHANGED <<yield, net, granted, online, packet_id, list_sub_handle, stripped, lock_write_buf, in_yield_cb>>

-----------------------------------------------------------------------------
(* wrapper_mqtt_yield                                                      *)

(* lock_yield can be taken: it is free, or the thread has it already.      *)
MayLock(t) == lock_yield = NoThread \/ within[t] # "none"

(* What lock_yield is when the section inside it is left.                  *)
Released(t) == IF within[t] = "none" THEN NoThread ELSE t

(* A new connection replaces a broken one: what was under way is lost, and *)
(* CONNACK was read into the buffer.                                       *)
Reconnected ==
    /\ online' = TRUE
    /\ unsubLost' = unsubLost \cup {toBroker[i].f : i \in {j \in DOMAIN toBroker :
                                                             toBroker[j].type = "UNSUBSCRIBE"}}
    /\ toBroker' = <<>> /\ toClient' = <<>>
    /\ buf_read' = NoPkt
    /\ UNCHANGED <<broker, budget>>

(* iotx_mc_keepalive, under lock_yield: when offline, an attempt to        *)
(* reconnect succeeds or fails; then the cycle begins.                     *)
YieldBegin(t) ==
    /\ t \in Yielders /\ ypc[t] = "none" /\ MayLock(t)
    /\ \/ pc[t] = "idle" /\ within[t] = "none" /\ UNCHANGED pc
       \/ pc[t] = "yield" /\ Goto(t, "wait")
    /\ \/ UNCHANGED <<online, net, buf_read>>
       \/ ~online /\ Reconnected
    /\ GotoY(t, "cycle")
    /\ UNCHANGED <<call, result, walk, within, lock_yield, granted, packet_id, list_sub_handle, stripped,
                   list_sub_sync_ack, lock_write_buf, in_yield_cb>>

(* The same with iotx_mc_disconnect_callback before, or with               *)
(* iotx_mc_reconnect_callback after the attempt: the application is called *)
(* under lock_yield.  (DISCONNECTED and DISCONNECTED_RECONNECTING are both *)
(* offline here.)                                                          *)
EventCallback(t) ==
    /\ t \in Yielders /\ pc[t] = "idle" /\ ypc[t] = "none"
    /\ lock_yield = NoThread /\ ~online
    /\ \/ within' = [within EXCEPT ![t] = "disconnect"] /\ UNCHANGED <<online, net, buf_read>>
       \/ within' = [within EXCEPT ![t] = "reconnect"] /\ Reconnected
    /\ lock_yield' = t
    /\ UNCHANGED <<api, ypc, walk, granted, packet_id, list_sub_handle, stripped, list_sub_sync_ack,
                   lock_write_buf, in_yield_cb>>

(* The callback returns; after DISCONNECT the connection is closed, also   *)
(* one that a yield inside the callback has made.                          *)
EventReturns(t) ==
    /\ within[t] \in {"disconnect", "reconnect"} /\ pc[t] = "idle" /\ ypc[t] = "none"
    /\ online' = (online /\ within[t] = "reconnect")
    /\ within' = [within EXCEPT ![t] = "none"]
    /\ lock_yield' = NoThread
    /\ GotoY(t, "cycle")
    /\ UNCHANGED <<api, walk, buf_read, net, granted, packet_id, list_sub_handle, stripped,
                   list_sub_sync_ack, lock_write_buf, in_yield_cb>>

(* A round of _mqtt_cycle holds lock_yield: iotx_mc_read_packet puts a     *)
(* packet into the buffer, and iotx_mc_cycle handles it.                   *)
ReadPacket(t) ==
    /\ ypc[t] = "cycle" /\ online /\ MayLock(t)
    /\ toClient # <<>>
    /\ lock_yield' = t
    /\ buf_read' = Head(toClient)
    /\ toClient' = Tail(toClient)
    /\ walk' = [walk EXCEPT ![t] = [NoWalk EXCEPT !.type = Head(toClient).type]]
    /\ GotoY(t, "handle")
    /\ UNCHANGED <<api, within, toBroker, broker, budget, unsubLost, client, granted>>

(* The read fails: the buffer is freed and the client is offline.          *)
ReadFails(t) ==
    /\ ypc[t] = "cycle" /\ online /\ MayLock(t)
    /\ budget > 0
    /\ budget' = budget - 1
    /\ online' = FALSE
    /\ buf_read' = NoPkt
    /\ UNCHANGED <<api, ypc, walk, within, lock_yield, toBroker, toClient, broker, unsubLost, granted,
                   packet_id, list_sub_handle, stripped, list_sub_sync_ack, lock_write_buf, in_yield_cb>>

(* Nothing to read, or offline, until the time of the yield is over.  A    *)
(* read that timed out frees the buffer.                                   *)
YieldEnd(t) ==
    /\ ypc[t] = "cycle" /\ MayLock(t)
    /\ GotoY(t, "none")
    /\ walk' = [walk EXCEPT ![t] = NoWalk]
    /\ buf_read' = IF online THEN NoPkt ELSE buf_read
    /\ UNCHANGED <<api, within, lock_yield, net, client, granted>>

(* The switch of iotx_mc_cycle over the type of the packet.                *)
TakesUp(t, type) == ypc[t] = "handle" /\ buf_read.type = type

(* _iotx_mqtt_event_handle_sub.                                            *)
MarkAcks(id, ack) ==
    [i \in DOMAIN list_sub_sync_ack |->
        IF list_sub_sync_ack[i].id = id THEN [list_sub_sync_ack[i] EXCEPT !.ack = ack]
        ELSE list_sub_sync_ack[i]]

(* _handle_event calls the application.                                    *)
EnterCallback(t) ==
    /\ in_yield_cb' = TRUE
    /\ GotoY(t, "cb")

(* iotx_mc_handle_recv_SUBACK marks the nodes and tells the application.   *)
iotx_mc_handle_recv_SUBACK(t) ==
    /\ TakesUp(t, "SUBACK")
    /\ list_sub_sync_ack' = MarkAcks(buf_read.id, IF buf_read.ok THEN "SUCCESS" ELSE "NACK")
    /\ granted' = IF buf_read.ok THEN granted \cup {buf_read.id} ELSE granted
    /\ EnterCallback(t)
    /\ UNCHANGED <<api, walk, within, buf_read, lock_yield, net, online, packet_id, list_sub_handle, stripped, lock_write_buf>>

(* iotx_mc_handle_recv_UNSUBACK tells the application.                     *)
iotx_mc_handle_recv_UNSUBACK(t) ==
    /\ TakesUp(t, "UNSUBACK")
    /\ EnterCallback(t)
    /\ UNCHANGED <<api, walk, within, buf_read, lock_yield, net, granted, online, packet_id, list_sub_handle, stripped,
                   list_sub_sync_ack, lock_write_buf>>

(* The walk over the handlers begins for a message on topic f.             *)
BeginWalk(t, type, f) ==
    walk' = [walk EXCEPT ![t] = [NoWalk EXCEPT !.type = type, !.f = f,
                !.due = {h \in ToSet(list_sub_handle) : type = "PUBLISH" /\ FilterOf[h] \in Matches[f]}]]

(* iotx_mc_handle_recv_PUBLISH.                                            *)
iotx_mc_handle_recv_PUBLISH(t) ==
    /\ TakesUp(t, "PUBLISH")
    /\ BeginWalk(t, "PUBLISH", buf_read.f)
    /\ GotoY(t, "walk")
    /\ UNCHANGED <<api, within, buf_read, lock_yield, net, client, granted>>

(* iotx_mc_parse_identity_response: the message is an identity response,   *)
(* for which the application is called before the walk.                    *)
iotx_mc_parse_identity_response(t) ==
    /\ TakesUp(t, "PUBLISH") /\ pc[t] = "idle"
    /\ within' = [within EXCEPT ![t] = "identity"]
    /\ walk' = [walk EXCEPT ![t] = NoWalk]
    /\ GotoY(t, "none")
    /\ UNCHANGED <<api, buf_read, lock_yield, net, client, granted>>

(* The walk begins after that callback; over whatever the freed buffer     *)
(* holds if the callback has yielded.                                      *)
IdentityReturns(t) ==
    /\ within[t] = "identity" /\ pc[t] = "idle" /\ ypc[t] = "none"
    /\ IF buf_read # NoPkt THEN BeginWalk(t, "PUBLISH", buf_read.f)
       ELSE \E f \in Filters : BeginWalk(t, "garbled", f)
    /\ within' = [within EXCEPT ![t] = "none"]
    /\ GotoY(t, "walk")
    /\ UNCHANGED <<api, buf_read, lock_yield, net, client, granted>>

Position(h) == CHOOSE i \in DOMAIN list_sub_handle : list_sub_handle[i] = h

(* Where the walk can go on: behind its node, or, from a freed node,       *)
(* wherever the stale pointer leads.                                       *)
Resume(t) ==
    CASE walk[t].at = NoHandler -> {1}
      [] walk[t].at # NoHandler /\ walk[t].freed -> 1 .. Len(list_sub_handle) + 1
      [] OTHER -> {Position(walk[t].at) + 1}

(* Mutant of MatchesFrom: the walk ends with its first callback.           *)
MatchesFirst(t, i) ==
    {j \in i .. Len(list_sub_handle) : walk[t].called = {} /\ FilterOf[list_sub_handle[j]] \in Matches[walk[t].f]}

MatchesFrom(t, i) == {j \in i .. Len(list_sub_handle) : FilterOf[list_sub_handle[j]] \in Matches[walk[t].f]}

(* iotx_mc_deliver_message: on to the next node that matches, whose        *)
(* callback runs without the lock; without any match, to the default       *)
(* handler; otherwise the packet is done.                                  *)
iotx_mc_deliver_message(t) ==
    /\ ypc[t] = "walk"
    /\ \E i \in Resume(t) :
       LET due  == IF walk[t].freed THEN {} ELSE walk[t].due
           here == MatchesFrom(t, i)
       IN  \/ /\ here # {}
              /\ LET h == list_sub_handle[Min(here)] IN
                 walk' = [walk EXCEPT ![t].at = h, ![t].freed = FALSE, ![t].due = due,
                                      ![t].called = @ \cup {h}]
              /\ EnterCallback(t) /\ UNCHANGED <<buf_read, lock_yield>>
           \/ /\ here = {} /\ walk[t].called = {}
              /\ walk' = [walk EXCEPT ![t].type = "default"]
              /\ EnterCallback(t) /\ UNCHANGED <<buf_read, lock_yield>>
           \/ /\ here = {} /\ walk[t].called # {}
              /\ walk' = [walk EXCEPT ![t].at = NoHandler, ![t].freed = FALSE, ![t].due = due]
              /\ buf_read' = NoPkt /\ lock_yield' = Released(t)
              /\ GotoY(t, "cycle") /\ UNCHANGED in_yield_cb
    /\ UNCHANGED <<api, within, net, granted, online, packet_id, list_sub_handle, stripped, list_sub_sync_ack, lock_write_buf>>

(* The callback returns, with its own call done.                           *)
CallbackReturns(t) ==
    /\ ypc[t] = "cb"
    /\ pc[t] \in {"idle", "wait"}
    /\ in_yield_cb' = FALSE
    /\ IF walk[t].type \in {"PUBLISH", "garbled"}
       THEN GotoY(t, "walk") /\ UNCHANGED <<walk, buf_read, lock_yield>>
       ELSE /\ GotoY(t, "cycle")
            /\ buf_read' = NoPkt /\ lock_yield' = Released(t)
            /\ walk' = [walk EXCEPT ![t] = NoWalk]
    /\ UNCHANGED <<api, within, net, granted, online, packet_id, list_sub_handle, stripped, list_sub_sync_ack, lock_write_buf>>

-----------------------------------------------------------------------------
(* The broker (external)                                                   *)

BrokerStep ==
    /\ toBroker # <<>>
    /\ LET p == Head(toBroker) IN
       \/ /\ p.type = "SUBSCRIBE"
          /\ \E ok \in BOOLEAN :
                /\ broker' = IF ok THEN broker \cup {p.f} ELSE broker
                /\ toClient' = Append(toClient, [type |-> "SUBACK", id |-> p.id, ok |-> ok])
       \/ /\ p.type = "UNSUBSCRIBE"
          /\ broker' = broker \ {p.f}
          /\ toClient' = Append(toClient, [type |-> "UNSUBACK", id |-> p.id])
    /\ toBroker' = Tail(toBroker)
    /\ UNCHANGED <<api, yield, client, granted, budget, unsubLost>>

BrokerPublish(f) ==
    /\ Matches[f] \cap broker # {} /\ budget > 0
    /\ budget' = budget - 1
    /\ toClient' = Append(toClient, [type |-> "PUBLISH", f |-> f])
    /\ UNCHANGED <<api, yield, client, granted, toBroker, broker, unsubLost>>

-----------------------------------------------------------------------------
CallStep(t) ==
    \/ TakeId(t) \/ SendRequest(t) \/ SendFails(t) \/ StoreDisconnected(t)
    \/ AddHandler(t) \/ RemoveHandlers(t) \/ ReturnToCaller(t)
    \/ AddSyncNode(t) \/ LookForAck(t) \/ NextRound(t)

YieldStep(t) ==
    \/ EventReturns(t) \/ ReadPacket(t) \/ ReadFails(t) \/ YieldEnd(t)
    \/ iotx_mc_handle_recv_SUBACK(t) \/ iotx_mc_handle_recv_UNSUBACK(t)
    \/ iotx_mc_handle_recv_PUBLISH(t) \/ iotx_mc_parse_identity_response(t) \/ IdentityReturns(t)
    \/ iotx_mc_deliver_message(t) \/ CallbackReturns(t)

Next ==
    \/ \E t \in Threads :
          \/ \E a \in Apis : BeginCall(t, a[1], a[2])
          \/ CallStep(t) \/ SyncTimeout(t) \/ YieldBegin(t) \/ EventCallback(t) \/ YieldStep(t)
    \/ BrokerStep
    \/ \E f \in Filters : BrokerPublish(f)

Spec == Init /\ [][Next]_vars

-----------------------------------------------------------------------------
(* Properties                                                              *)

(* A handler is in list_sub_handle once, however many threads subscribe    *)
(* it: the search for an identical node and the insertion are one section. *)
NoDuplicateHandlers == IsInjective(list_sub_handle)

(* The filter's subscription once the broker has read what was sent.       *)
WillBeSubscribed(f) ==
    LET about == {i \in DOMAIN toBroker : toBroker[i].f = f} IN
    IF about = {} THEN f \in broker
    ELSE toBroker[Max(about)].type = "SUBSCRIBE"

(* While the broker delivers a filter to this client, or will as soon as   *)
(* it has read what was sent, some handler of the filter is in the list or *)
(* about to be added, in whatever order subscribing and unsubscribing      *)
(* threads run.  Two things only break it: an UNSUBSCRIBE was lost with    *)
(* the connection, or MQTTUnsubscribe of another filter, which this one    *)
(* matches, has taken its handlers and none was added since.               *)
SubscribedIsHandled ==
    \A f \in Filters \ (unsubLost \cup stripped) :
        WillBeSubscribed(f) =>
            \E h \in Handlers :
                /\ FilterOf[h] = f
                /\ \/ Contains(list_sub_handle, h)
                   \/ \E t \in Threads : pc[t] = "add" /\ call[t].h = h

(* Every node of list_sub_sync_ack belongs to the one call that will take  *)
(* it off again; none is left behind by refusals, failures or time-outs.   *)
SyncNodesOwned ==
    /\ \A i \in DOMAIN list_sub_sync_ack :
          \E t \in Threads : call[t].subed /\ call[t].ret = list_sub_sync_ack[i].id
    /\ \A i, j \in DOMAIN list_sub_sync_ack :
          list_sub_sync_ack[i].id = list_sub_sync_ack[j].id => i = j

(* A synchronous subscription that reports success has had its SUBACK:     *)
(* "Subscribe MQTT topic and wait suback", also when another yielding      *)
(* thread handled it.  (Excepted: some thread was in a callback when       *)
(* SUBSCRIBE had been sent; the call then does not wait.)                  *)
SyncMeansGranted ==
    \A t \in Threads :
        result[t].kind = "sync" /\ result[t].ret > 0 /\ ~result[t].early => result[t].ret \in granted

(* A message is given to every handler of its filter that was in the list  *)
(* when the walk began and was not removed meanwhile, although the list    *)
(* changes while callbacks run, unless the walk stood on a freed node.     *)
DeliveredToAll ==
    \A t \in Threads :
        ypc[t] = "cycle" \/ walk[t].type = "default" => walk[t].due \subseteq walk[t].called

(* A callback made by _handle_event never yields: its synchronous          *)
(* subscription returns at once, although _in_yield_cb is one flag for all *)
(* threads and other callbacks run without setting it.                     *)
NoNestedYield == \A t \in Threads : InCallback(t) => pc[t] \notin {"yield", "decide"}

(* The message that is being given to the handlers stays in the read       *)
(* buffer until the last of them has returned, whatever the handlers, the  *)
(* other threads and the reconnections do.  (Garbled is only one for which *)
(* the identity callback subscribed synchronously before the handlers.)    *)
MessageKept ==
    \A t \in Threads :
        ypc[t] \in {"walk", "cb"} /\ walk[t].type = "PUBLISH" =>
            buf_read = [type |-> "PUBLISH", f |-> walk[t].f]

(* The two lists are sound, no handler is listed twice and every node for  *)
(* a SUBACK has a call that will take it off; no handler waits for a       *)
(* SUBACK, and the message it was given stays valid.                       *)
SubscribeInv == TypeOK /\ NoDuplicateHandlers /\ SyncNodesOwned /\ NoNestedYield /\ MessageKept
=============================================================================
